---- MODULE Spec2Model ----
(***************************************************************************)
(* A model of utils/strip_pdf_metadata.py: one run of main() over a small  *)
(* file system.  A path is the sequence of the dot-separated components of *)
(* its file name (all files live in one directory, and every path is       *)
(* already absolute, so expanduser().resolve() leaves it as it is).  A     *)
(* document is what the PDF library parses from a complete file: the       *)
(* identity of its pages/content, whether it carries XMP metadata and an   *)
(* Info dictionary, and whether it is encrypted.  A file on disk is a      *)
(* document of which `written` chunks have reached the disk.               *)
(***************************************************************************)
EXTENDS Integers, Sequences, FiniteSets, TLC

\* args       the parsed command line
\* fs         the file system: path -> file
\* fs0        the file system the run started in (never changes)
\* pc         where main() is
\* i          the index of the input the current loop is at
\* out_path   the resolved output path of input i (NoPath before it is resolved)
\* reader     the document PdfReader parsed for input i
\* writer     the stripped clone held by PdfWriter
\* f          the path of the file open for writing (NoPath when none is)
\* stdout     the "Processed:" lines, as <<input, output>>
\* stderr     the "ERROR:" lines
\* exit_code  what main() returned (NoExit while it runs)
\* log        the file operations and "Processed:" prints in the order they
\*            happened, as <<operation, input index, path>>
VARIABLES args, fs, fs0, pc, i, out_path, reader, writer, f,
          stdout, stderr, exit_code, log

vars == <<args, fs, fs0, pc, i, out_path, reader, writer, f,
          stdout, stderr, exit_code, log>>

\* ------------------------------------------------------------------ bounds

\* The longest list of input paths on the command line.
MaxInputs == 2

\* The number of write() calls the serialisation of one document takes.
Chunks == 2

\* ------------------------------------------------------------------- paths

NoPath == <<>>

A_PDF == <<"a", "PDF">>
A_TMP == <<"a", "tmp", "pdf">>
A_STRIPPED == <<"a-stripped", "pdf">>
A_TXT == <<"a", "txt">>

\* pathlib's PurePath.suffix, without its dot: the last component of a name
\* that has more than one.
Suffix(path) == IF Len(path) > 1 THEN path[Len(path)] ELSE ""

\* pathlib's PurePath.stem: the name without its suffix.
Stem(path) == IF Len(path) > 1 THEN SubSeq(path, 1, Len(path) - 1) ELSE path

\* str.lower() on the suffixes the model uses.
Lower(s) ==
    CASE s = "PDF" -> "pdf"
      [] s = "Pdf" -> "pdf"
      [] s = "TXT" -> "txt"
      [] OTHER -> s

\* input_path.with_name(f"{input_path.stem}-stripped.pdf")
StrippedName(path) ==
    LET stem == Stem(path)
        n == Len(stem)
    IN  SubSeq(stem, 1, n - 1) \o <<stem[n] \o "-stripped">> \o <<"pdf">>

\* input_path.with_name(f"{input_path.stem}.tmp.pdf")
TmpName(path) == Stem(path) \o <<"tmp", "pdf">>

\* The names a command line may give as inputs, and as --output.
InputNames == {A_PDF, A_TMP, A_STRIPPED, A_TXT}
OutputArgs == {NoPath, A_PDF, A_STRIPPED}

\* Every path the run can look at.
AllNames ==
    InputNames \cup (OutputArgs \ {NoPath})
        \cup {StrippedName(n) : n \in InputNames}
        \cup {TmpName(n) : n \in InputNames}

\* --------------------------------------------------------------- documents

NullDoc == [id |-> NoPath, xmp |-> FALSE, info |-> FALSE, enc |-> FALSE]

\* A document with both kinds of metadata; `id` stands for its pages/content.
FullDoc(id) == [id |-> id, xmp |-> TRUE, info |-> TRUE, enc |-> FALSE]
EncryptedDoc(id) == [id |-> id, xmp |-> TRUE, info |-> TRUE, enc |-> TRUE]

NoFile == [exists |-> FALSE, doc |-> NullDoc, written |-> 0]
CompleteFile(doc) == [exists |-> TRUE, doc |-> doc, written |-> Chunks]

\* Path.exists()
Exists(files, path) == files[path].exists

\* A file whose serialisation did not reach its end.
Partial(file) == file.exists /\ file.written < Chunks

\* ------------------------------------------------------------ command line

NoPassword == "<None>"
UserPassword == "secret"
Passwords == {NoPassword, "", UserPassword, "wrong"}

\* Decrypt, as it would be if the result of decrypt() were never zero.
DecryptAlwaysMatches(doc, password) == 1

\* PdfReader.decrypt: the number of keys the password matches.
Decrypt(doc, password) == IF password = UserPassword THEN 1 ELSE 0

InputLists == UNION {[1..n -> InputNames] : n \in 1..MaxInputs}

\* parse_args(): the Namespace argparse builds (nargs="+": at least one input)
parse_args ==
    [inputs : InputLists, output : OutputArgs, in_place : BOOLEAN,
     password : Passwords, force : BOOLEAN]

\* input_paths = [Path(p).expanduser().resolve() for p in args.inputs]
input_paths == args.inputs

\* The file systems a run may start in: each name a command line can give as
\* a PDF input is absent, a plain PDF with metadata, or an encrypted one;
\* a.txt is a plain file; no derived name exists yet.
FileKinds == {"absent", "plain", "encrypted"}

InitialFile(name, kind) ==
    CASE kind = "plain" -> CompleteFile(FullDoc(name))
      [] kind = "encrypted" -> CompleteFile(EncryptedDoc(name))
      [] OTHER -> NoFile

InitialFiles ==
    {[n \in AllNames |->
        IF n = A_TXT THEN InitialFile(n, "plain")
        ELSE IF n \in InputNames THEN InitialFile(n, kinds[n])
        ELSE NoFile] :
     kinds \in [InputNames \ {A_TXT} -> FileKinds]}

\* ------------------------------------------------------------------- state

NoExit == -1

Init ==
    /\ args \in parse_args
    /\ fs \in InitialFiles
    /\ fs0 = fs
    /\ pc = "validate"
    /\ i = 1
    /\ out_path = NoPath
    /\ reader = NullDoc
    /\ writer = NullDoc
    /\ f = NoPath
    /\ stdout = <<>>
    /\ stderr = <<>>
    /\ exit_code = NoExit
    /\ log = <<>>

\* print(f"ERROR: ...", file=sys.stderr); return 1 -- an open file is closed
\* by its with-block and the file system stays as it is.  i, out_path, reader
\* and writer keep the values they had when the run ended.
Fail(message) ==
    /\ stderr' = Append(stderr, message)
    /\ exit_code' = 1
    /\ pc' = "done"
    /\ f' = NoPath
    /\ UNCHANGED <<args, fs0, i, out_path, reader, writer, stdout>>

\* ------------------------------------------------------------ phase 1

\* Validate, as it would be if phase 2 started right after the first input
\* passed (the rest of the list not validated up front).
ValidateFirstOnly ==
    /\ pc = "validate"
    /\ LET path == input_paths[i] IN
        IF ~Exists(fs, path)
        THEN Fail("File not found") /\ UNCHANGED <<fs, log>>
        ELSE IF Lower(Suffix(path)) # "pdf"
        THEN Fail("Not a PDF file") /\ UNCHANGED <<fs, log>>
        ELSE /\ i' = 1
             /\ pc' = "resolve"
             /\ UNCHANGED <<args, fs, fs0, out_path, reader, writer, f,
                            stdout, stderr, exit_code, log>>

\* Validate, as it would be if the error branches lacked their `return 1`.
ValidateNoReturn ==
    /\ pc = "validate"
    /\ LET path == input_paths[i] IN
        /\ stderr' = IF ~Exists(fs, path) THEN Append(stderr, "File not found")
                     ELSE IF Lower(Suffix(path)) # "pdf"
                     THEN Append(stderr, "Not a PDF file")
                     ELSE stderr
        /\ IF i < Len(input_paths)
           THEN i' = i + 1 /\ pc' = "validate"
           ELSE i' = 1 /\ pc' = "resolve"
        /\ UNCHANGED <<args, fs, fs0, out_path, reader, writer, f,
                       stdout, exit_code, log>>

\* One iteration of the validation loop; after the last input, phase 2
\* starts with the first input.
Validate ==
    /\ pc = "validate"
    /\ LET path == input_paths[i] IN
        IF ~Exists(fs, path)
        THEN Fail("File not found") /\ UNCHANGED <<fs, log>>
        ELSE IF Lower(Suffix(path)) # "pdf"
        THEN Fail("Not a PDF file") /\ UNCHANGED <<fs, log>>
        ELSE /\ IF i < Len(input_paths)
                THEN i' = i + 1 /\ pc' = "validate"
                ELSE i' = 1 /\ pc' = "resolve"
             /\ UNCHANGED <<args, fs, fs0, out_path, reader, writer, f,
                            stdout, stderr, exit_code, log>>

\* ------------------------------------------------------------ phase 2

ResolveError(message) == [ok |-> FALSE, error |-> message, path |-> NoPath]
Resolved(path) == [ok |-> TRUE, error |-> "", path |-> path]

\* resolve_output_path, as it would be without the existence check.
resolve_output_path_unchecked(files, input_path, output_arg, in_place, force, multiple_inputs) ==
    IF output_arg # NoPath /\ multiple_inputs
    THEN ResolveError("--output can be used only with a single input")
    ELSE IF output_arg # NoPath /\ in_place
    THEN ResolveError("Use either --output or --in-place, not both")
    ELSE Resolved(IF output_arg # NoPath THEN output_arg
                  ELSE IF in_place THEN input_path
                  ELSE StrippedName(input_path))

\* resolve_output_path, as it would be if the two configuration checks came
\* after the choice of the output path and so were never reached.
resolve_output_path_no_conflict(files, input_path, output_arg, in_place, force, multiple_inputs) ==
    LET output_path ==
            IF output_arg # NoPath THEN output_arg
            ELSE IF in_place THEN input_path
            ELSE StrippedName(input_path)
    IN  IF Exists(files, output_path) /\ output_path # input_path /\ ~force
        THEN ResolveError("Output already exists")
        ELSE Resolved(output_path)

resolve_output_path(files, input_path, output_arg, in_place, force, multiple_inputs) ==
    IF output_arg # NoPath /\ multiple_inputs
    THEN ResolveError("--output can be used only with a single input")
    ELSE IF output_arg # NoPath /\ in_place
    THEN ResolveError("Use either --output or --in-place, not both")
    ELSE LET output_path ==
                 IF output_arg # NoPath THEN output_arg
                 ELSE IF in_place THEN input_path
                 ELSE StrippedName(input_path)
         IN  IF Exists(files, output_path) /\ output_path # input_path /\ ~force
             THEN ResolveError("Output already exists")
             ELSE Resolved(output_path)

Resolve ==
    /\ pc = "resolve"
    /\ LET r == resolve_output_path(fs, input_paths[i], args.output, args.in_place,
                                    args.force, Len(input_paths) > 1)
       IN  IF r.ok
           THEN /\ out_path' = r.path
                /\ pc' = "read"
                /\ UNCHANGED <<args, fs, fs0, i, reader, writer, f,
                               stdout, stderr, exit_code, log>>
           ELSE Fail(r.error) /\ UNCHANGED <<fs, log>>

\* not password
NoPasswordGiven(password) == password \in {NoPassword, ""}

\* reader = PdfReader(str(input_path)) and the decryption of an encrypted
\* document.  The library reads the file; a missing or truncated file, or an
\* I/O error, raises.
OpenReader ==
    /\ pc = "read"
    /\ LET path == input_paths[i]
           file == fs[path]
       IN  \E io_ok \in BOOLEAN :
            /\ log' = Append(log, <<"read", i, path>>)
            /\ IF ~file.exists
               THEN Fail("No such file") /\ UNCHANGED fs
               ELSE IF Partial(file) \/ ~io_ok
               THEN Fail("Read error") /\ UNCHANGED fs
               ELSE IF file.doc.enc /\ NoPasswordGiven(args.password)
               THEN Fail("Encrypted PDF requires --password") /\ UNCHANGED fs
               ELSE IF file.doc.enc /\ Decrypt(file.doc, args.password) = 0
               THEN Fail("Failed to decrypt PDF with provided password") /\ UNCHANGED fs
               ELSE /\ reader' = file.doc
                    /\ pc' = "clone"
                    /\ UNCHANGED <<args, fs, fs0, i, out_path, writer, f,
                                   stdout, stderr, exit_code>>

\* StripClone, as it would be if only the XMP metadata were cleared.
StripCloneXmpOnly(doc) == [id |-> doc.id, xmp |-> FALSE, info |-> doc.info, enc |-> FALSE]

\* writer.clone_document_from_reader(reader); writer.xmp_metadata = None;
\* writer._info = None.  A fresh PdfWriter writes an unencrypted document.
StripClone(doc) == [id |-> doc.id, xmp |-> FALSE, info |-> FALSE, enc |-> FALSE]

BuildWriter ==
    /\ pc = "clone"
    /\ writer' = StripClone(reader)
    /\ pc' = "open"
    /\ UNCHANGED <<args, fs, fs0, i, out_path, reader, f,
                   stdout, stderr, exit_code, log>>

\* WriteTarget, as it would be if the in-place case wrote over the input.
WriteTargetDirect(input_path, output_path) == output_path

\* The path strip_metadata opens for writing.
WriteTarget(input_path, output_path) ==
    IF output_path = input_path THEN TmpName(input_path) ELSE output_path

\* tmp_path.open("wb") / output_path.open("wb"): creates or truncates the
\* file, or raises and leaves the file system alone.
OpenForWrite ==
    /\ pc = "open"
    /\ LET target == WriteTarget(input_paths[i], out_path) IN
        \E io_ok \in BOOLEAN :
            IF io_ok
            THEN /\ fs' = [fs EXCEPT ![target] =
                               [exists |-> TRUE, doc |-> writer, written |-> 0]]
                 /\ f' = target
                 /\ pc' = "write"
                 /\ log' = Append(log, <<"open_w", i, target>>)
                 /\ UNCHANGED <<args, fs0, i, out_path, reader, writer,
                                stdout, stderr, exit_code>>
            ELSE Fail("Cannot open for writing") /\ UNCHANGED <<fs, log>>

\* writer.write(f), one chunk at a time; a failing write raises, the
\* with-block closes the file and what was written stays on disk.
WriteChunk ==
    /\ pc = "write"
    /\ fs[f].written < Chunks
    /\ \E io_ok \in BOOLEAN :
        IF io_ok
        THEN /\ fs' = [fs EXCEPT ![f].written = @ + 1]
             /\ UNCHANGED <<args, fs0, pc, i, out_path, reader, writer, f,
                            stdout, stderr, exit_code, log>>
        ELSE Fail("Write error") /\ UNCHANGED <<fs, log>>

\* The end of the with-block: the file is closed.
CloseFile ==
    /\ pc = "write"
    /\ fs[f].written = Chunks
    /\ log' = Append(log, <<"close", i, f>>)
    /\ f' = NoPath
    /\ pc' = IF out_path = input_paths[i] THEN "replace" ELSE "print"
    /\ UNCHANGED <<args, fs, fs0, i, out_path, reader, writer,
                   stdout, stderr, exit_code>>

\* tmp_path.replace(input_path): an atomic rename, or an error that leaves
\* both files as they are.
Replace ==
    /\ pc = "replace"
    /\ LET input_path == input_paths[i]
           tmp_path == TmpName(input_path)
       IN  \E io_ok \in BOOLEAN :
            IF io_ok
            THEN /\ fs' = [fs EXCEPT ![input_path] = fs[tmp_path],
                                     ![tmp_path] = NoFile]
                 /\ log' = Append(log, <<"replace", i, input_path>>)
                 /\ pc' = "print"
                 /\ UNCHANGED <<args, fs0, i, out_path, reader, writer, f,
                                stdout, stderr, exit_code>>
            ELSE Fail("Cannot replace") /\ UNCHANGED <<fs, log>>

\* print(f"Processed: {path} -> {out_path}"), then the next input, or
\* return 0 after the last.
PrintProcessed ==
    /\ pc = "print"
    /\ stdout' = Append(stdout, <<input_paths[i], out_path>>)
    /\ log' = Append(log, <<"print", i, out_path>>)
    /\ out_path' = NoPath
    /\ reader' = NullDoc
    /\ writer' = NullDoc
    /\ IF i < Len(input_paths)
       THEN i' = i + 1 /\ pc' = "resolve" /\ UNCHANGED exit_code
       ELSE pc' = "done" /\ exit_code' = 0 /\ UNCHANGED i
    /\ UNCHANGED <<args, fs, fs0, f, stderr>>

Next ==
    \/ Validate
    \/ Resolve
    \/ OpenReader
    \/ BuildWriter
    \/ OpenForWrite
    \/ WriteChunk
    \/ CloseFile
    \/ Replace
    \/ PrintProcessed

Spec == Init /\ [][Next]_vars

\* ------------------------------------------------------------ properties

\* The positions of the log entries made while input number k was processed.
EventsFor(k) == {n \in 1..Len(log) : log[n][2] = k}

\* The positions of the log entries that touch the file system for writing.
WriteEvents == {n \in 1..Len(log) : log[n][1] \in {"open_w", "close", "replace"}}

\* An input that phase 1 must reject, judged on the file system the run
\* started in.
InvalidInput(path) == ~fs0[path].exists \/ Suffix(path) \notin {"pdf", "PDF", "Pdf"}

AllInputsValid == \A j \in 1..Len(input_paths) : ~InvalidInput(input_paths[j])

\* The output path the command line asks for, for one input.
RequestedOutput(input_path) ==
    IF args.output # NoPath THEN args.output
    ELSE IF args.in_place THEN input_path
    ELSE StrippedName(input_path)

ConfigConflict == args.output # NoPath /\ (Len(input_paths) > 1 \/ args.in_place)

\* A complete file holding a document without XMP metadata and without an
\* Info dictionary, whose content is that of `doc`.
StrippedFileOf(file, doc) ==
    /\ file.exists
    /\ file.written = Chunks
    /\ ~file.doc.xmp
    /\ ~file.doc.info
    /\ file.doc.id = doc.id

\* C1: if any input path does not exist or has no case-insensitive .pdf
\* extension, the run ends with exit code 1, no file is created, modified or
\* replaced and no "Processed:" line is printed, also when valid inputs come
\* earlier in the list.
C1_ValidationAllOrNothing ==
    ~AllInputsValid =>
        /\ fs = fs0
        /\ log = <<>>
        /\ stdout = <<>>
        /\ pc \in {"validate", "done"}
        /\ exit_code # 0
        /\ (pc = "done" => exit_code = 1)

C1_Witness ==
    /\ pc = "done"
    /\ exit_code = 1
    /\ Len(input_paths) > 1
    /\ ~InvalidInput(input_paths[1])
    /\ InvalidInput(input_paths[2])
    /\ i = 2

C3_NoPartialOutputLeft ==
    (pc = "done" /\ exit_code = 1 /\ out_path # NoPath) => ~Partial(fs[out_path])

\* C4: when the output path asked for an input exists, is not the input path
\* and --force is absent, resolving it ends the run with a file-exists error
\* and exit code 1, before that input is read or anything is written for it,
\* and the file system is as it was; in every other case without a
\* configuration conflict (so whenever the output path is the input path)
\* resolving succeeds with that path.
C4_ExistingOutputRefused ==
    [][(pc = "resolve" /\ ~ConfigConflict) =>
        LET input_path == input_paths[i]
            target == RequestedOutput(input_path)
        IN  IF Exists(fs, target) /\ target # input_path /\ ~args.force
            THEN /\ pc' = "done"
                 /\ exit_code' = 1
                 /\ stderr' = Append(stderr, "Output already exists")
                 /\ fs' = fs
                 /\ log' = log
                 /\ EventsFor(i) = {}
            ELSE /\ pc' = "read"
                 /\ out_path' = target
                 /\ stderr' = stderr]_vars

C4_Witness ==
    /\ pc = "done"
    /\ ~args.force
    /\ stderr = <<"Output already exists">>
    /\ fs[RequestedOutput(input_paths[i])].exists
    /\ RequestedOutput(input_paths[i]) # input_paths[i]

\* C5: when all inputs pass validation and --output is given with two or more
\* inputs or with --in-place, the run ends with exit code 1 and one
\* configuration error, nothing is stripped and no file is created or
\* modified.
C5_ConfigConflictTouchesNothing ==
    (AllInputsValid /\ ConfigConflict) =>
        /\ fs = fs0
        /\ log = <<>>
        /\ stdout = <<>>
        /\ pc \in {"validate", "resolve", "done"}
        /\ exit_code # 0
        /\ pc = "done" =>
               /\ exit_code = 1
               /\ Len(stderr) = 1
               /\ stderr[1] = IF Len(input_paths) > 1
                              THEN "--output can be used only with a single input"
                              ELSE "Use either --output or --in-place, not both"

C5_Witness ==
    /\ pc = "done"
    /\ AllInputsValid
    /\ Len(input_paths) > 1
    /\ args.output # NoPath
    /\ ~fs0[args.output].exists
    /\ stderr = <<"--output can be used only with a single input">>

\* C6: reading an encrypted input without a non-empty password, or with a
\* password that matches no key, ends the run with exit code 1 and leaves
\* the file system as it was, nothing having been opened for writing or
\* replaced for that input, whatever --force and --in-place say; with the
\* right password the input goes on to be stripped (unless reading it fails),
\* and the output written for an encrypted input has no metadata.
C6_DecryptionFailure ==
    [][/\ (pc = "read" /\ fs[input_paths[i]].exists /\ fs[input_paths[i]].doc.enc) =>
            IF args.password \in {NoPassword, ""} \/ args.password # UserPassword
            THEN /\ pc' = "done"
                 /\ exit_code' = 1
                 /\ Len(stderr') = 1
                 /\ fs' = fs
                 /\ \A n \in 1..Len(log') : log'[n][2] = i => log'[n][1] = "read"
            ELSE \/ /\ pc' = "clone"
                    /\ reader' = fs[input_paths[i]].doc
                 \/ /\ pc' = "done"
                    /\ stderr' = Append(stderr, "Read error")
                    /\ fs' = fs
       /\ (pc = "print" /\ reader.enc) =>
            /\ args.password = UserPassword
            /\ StrippedFileOf(fs[out_path], reader)]_vars

C6_Witness ==
    /\ pc = "done"
    /\ args.force
    /\ args.in_place
    /\ fs[input_paths[i]].doc.enc
    /\ stderr = <<"Failed to decrypt PDF with provided password">>
    /\ fs = fs0

\* C7: when strip_metadata has written a document, the file at the output
\* path is complete, has neither XMP metadata nor an Info dictionary, and has
\* the content of the document read; for a document read without metadata
\* (an already stripped one) the document written is the document read.
C7_StrippedOutput ==
    pc = "print" =>
        /\ StrippedFileOf(fs[out_path], reader)
        /\ (~reader.xmp /\ ~reader.info /\ ~reader.enc) => fs[out_path].doc = reader

C7_Witness ==
    /\ pc = "print"
    /\ i = 2
    /\ ~reader.xmp
    /\ ~reader.info
    /\ input_paths[i] # out_path

\* The ordering part of C8: log entries are in input order, none is for an
\* input after the current one, and every entry for input k+1 comes after the
\* "Processed:" line of input k.
SequentialOrder ==
    /\ \A m, n \in 1..Len(log) : m < n => log[m][2] <= log[n][2]
    /\ \A n \in 1..Len(log) : log[n][2] <= i
    /\ \A n \in 1..Len(log) :
           log[n][2] > 1 => \E m \in 1..(n - 1) : log[m][1] = "print" /\ log[m][2] = log[n][2] - 1

\* C8: phase 2 is sequential and fail-fast without rollback: inputs are
\* processed in order, input i+1 is not touched before input i is done, after
\* the first error no later input is read or written, and the outputs written
\* for the inputs before the failing one remain on disk in stripped form.
C8_SequentialFailFast ==
    /\ SequentialOrder
    /\ (pc = "done" /\ exit_code = 1) =>
           \A j \in 1..Len(stdout) :
               /\ fs[stdout[j][2]].exists
               /\ ~Partial(fs[stdout[j][2]])
               /\ ~fs[stdout[j][2]].doc.xmp
               /\ ~fs[stdout[j][2]].doc.info

\* C9: a finished run has exit code 0 exactly when every input has its
\* "Processed:" line, each printed once its output is completely written and
\* before the next input is started; otherwise the exit code is 1 and exactly
\* one "ERROR:" line was printed; no run prints more than one "ERROR:" line
\* and a run with exit code 0 prints none.
C9_ExitCodeAgrees ==
    /\ Len(stderr) <= 1
    /\ (pc = "done") = (exit_code # NoExit)
    /\ exit_code \in {NoExit, 0, 1}
    /\ Len(stdout) <= Len(input_paths)
    /\ \A j \in 1..Len(stdout) : stdout[j][1] = input_paths[j]
    /\ pc \in {"resolve", "read", "clone", "open", "write", "replace", "print"} =>
           Len(stdout) = i - 1
    /\ pc = "print" => fs[out_path].exists /\ ~Partial(fs[out_path])
    /\ \A n \in 1..Len(log) :
           log[n][2] > 1 => \E m \in 1..(n - 1) : log[m] = <<"print", log[n][2] - 1, stdout[log[n][2] - 1][2]>>
    /\ pc = "done" =>
           /\ (exit_code = 0) = (Len(stdout) = Len(input_paths))
           /\ exit_code = 0 => stderr = <<>>
           /\ exit_code = 1 => Len(stderr) = 1

C9_Witness ==
    /\ pc = "done"
    /\ exit_code = 1
    /\ Len(input_paths) = 2
    /\ Len(stdout) = 1
    /\ Len(stderr) = 1

\* C10: without --force, a file that existed before the run and whose content
\* differs, or that is gone, after any step of the run is an input whose
\* resolved output path is the input path; every other file that existed,
\* also one named <stem>.tmp.pdf next to an input, keeps its content.
C10_NoForceNoOverwrite ==
    ~args.force =>
        \A n \in AllNames :
            (fs0[n].exists /\ fs[n] # fs0[n]) =>
                \E j \in 1..Len(input_paths) :
                    /\ input_paths[j] = n
                    /\ RequestedOutput(n) = n

====
